---- MODULE Spec2Model ----
(***************************************************************************)
(* Model of the AtomOS workflow core (pkgs/workflows): CompileWorkflow     *)
(* builds a graph from a manifest by matching outputs to inputs,           *)
(* RunWorkFlow walks it breadth-first from a root and executeBlock runs    *)
(* the block binaries, staging their outputs in wm.results.                *)
(***************************************************************************)
EXTENDS Integers, Sequences, FiniteSets, TLC

\* ---------------------------------------------------------------- bounds
MaxConns == 3   \* connections per manifest
MaxRuns == 2    \* RunWorkFlow calls per behaviour
MaxFailures == 1 \* failed subprocess invocations per behaviour
MaxInstalls == 2 \* metadata files written per behaviour of the package manager

\* ------------------------------------------------------- input alphabets
AllBlocks == <<"A", "B", "C">>
Labels == {"x", "y"}
NoLabel == ""
SourcePaths == {"in.txt"}
WorkflowPaths == {"p1"}
WorkflowNames == {"w1", "w2"}
Entries == {"e1", "e2"}

\* types.go Connection: from_block, from_entry, output, input, source, with
\* the entries of entries.  source is only declared on a connection without
\* input (manifest format), and a connection has an output or an input.
ConnectionOf(names, entries) ==
    [FromBlock : names, FromEntry : entries, Output : Labels, Input : {NoLabel},
     Source : SourcePaths]
    \cup
    [FromBlock : names, FromEntry : entries, Output : Labels \cup {NoLabel},
     Input : Labels, Source : {""}]

\* from_entry is carried to the edge but never read by RunWorkFlow and
\* executeBlock: the manifests that are run name one entry.
Connection(names) == ConnectionOf(names, {"e1"})

\* types.go Block, identified by Name; GitHub is the repository it installs
\* from.  The manifests of the model ask for the latest release and do not
\* force a reinstallation (the zero values of version and force).
Block(n) == [Name |-> n, GitHub |-> n, Version |-> "", Force |-> FALSE]

BlockLists == {[i \in 1..n |-> Block(AllBlocks[i])] : n \in 1..Len(AllBlocks)}

\* The from_block names of the connections of a manifest: those of the
\* declared blocks, and with a single declared block also a name that is not
\* declared.
ConnNames(blocks) ==
    {AllBlocks[i] : i \in 1..(IF Len(blocks) = 1 THEN 2 ELSE Len(blocks))}

Min(S) == CHOOSE m \in S : \A o \in S : m <= o

\* Where a block name is first used as from_block, and where a label first
\* occurs, in the connection list (beyond its end if nowhere).
FirstBlockUse(conns, b) ==
    Min({i \in 1..Len(conns) : conns[i].FromBlock = b} \cup {Len(conns) + 1})

FirstLabelUse(conns, l) ==
    Min({2 * i - 1 : i \in {j \in 1..Len(conns) : conns[j].Output = l}}
        \cup {2 * i : i \in {j \in 1..Len(conns) : conns[j].Input = l}}
        \cup {2 * Len(conns) + 1})

\* The code treats block names and labels as opaque strings, so a manifest
\* stands for all its renamings: the model takes the one whose declared block
\* names, undeclared block names and labels are each first used in order.
InOrder(first, a, b, never) == first[a] < first[b] \/ first[b] = never

Canonical(blocks, conns) ==
    LET nb == Len(blocks)
        fb == [i \in 1..Len(AllBlocks) |-> FirstBlockUse(conns, AllBlocks[i])]
        fl == [l \in Labels |-> FirstLabelUse(conns, l)]
    IN /\ \A i \in 1..(Len(AllBlocks) - 1) :
             (i + 1 <= nb \/ i > nb) => InOrder(fb, i, i + 1, Len(conns) + 1)
       /\ InOrder(fl, "x", "y", 2 * Len(conns) + 1)

\* Entries are opaque strings as well: the first entry a manifest names is
\* e1.  from_entry reaches an edge only from a connection that has an output,
\* so a connection without output names e1.
EntriesInOrder(conns) ==
    \A i \in DOMAIN conns :
      conns[i].FromEntry = "e2" =>
        /\ conns[i].Output # NoLabel
        /\ \E j \in 1..(i - 1) : conns[j].FromEntry = "e1"

\* A workflow with one source: the first connection has no input, the others
\* have one.
SingleSource(conns) ==
    /\ Len(conns) >= 1
    /\ \A i \in DOMAIN conns : (conns[i].Input = NoLabel) <=> (i = 1)

\* types.go RawWorkflow
RawWorkflow(blocks, conns) == [Name |-> "w1", Blocks |-> blocks, Connections |-> conns]

\* A second manifest, named w2, that declares blocks of the same names, from
\* the same repositories or from other ones, and the first k connections.
Repositories(fork) ==
    IF fork THEN [A |-> "A2", B |-> "B2", C |-> "C2"] ELSE [A |-> "A", B |-> "B", C |-> "C"]

SecondWorkflow(rwf, fork, k) ==
    [Name |-> "w2",
     Blocks |-> [i \in DOMAIN rwf.Blocks |->
                   [Name |-> rwf.Blocks[i].Name,
                    GitHub |-> Repositories(fork)[rwf.Blocks[i].Name],
                    Version |-> rwf.Blocks[i].Version,
                    Force |-> rwf.Blocks[i].Force]],
     Connections |-> SubSeq(rwf.Connections, 1, k)]

\* --------------------------------------------------------------- state
VARIABLES
    disk,       \* workflow files: path -> parsed manifest
    workflows,  \* wm.workflows: name -> graph
    metadata,   \* wm.metadata: block name -> BlockMetadata
    results,    \* wm.results: output label -> captured output
    ret,        \* what the last CompileWorkflow / RunWorkFlow call returned
    pc,         \* position inside RunWorkFlow
    wfn,        \* argument of the running RunWorkFlow
    startNode,  \* the root RunWorkFlow starts from
    visited, queue, level, levelLeft,   \* locals of RunWorkFlow
    cur,        \* currentNode
    pending,    \* outgoing edges executeBlock has not yet handled
    runNo,      \* number of RunWorkFlow calls so far
    budget,     \* number of RunWorkFlow calls the behaviour still makes
    compiled,   \* history: the workflow files CompileWorkflow was called with, in order
    compiles,   \* number of CompileWorkflow calls the behaviour still makes
    results0,   \* history: wm.results when the current RunWorkFlow was called
    failures,   \* history: subprocess invocations that have failed, counted up to MaxFailures
    trace,      \* events of the current run, in order
    installs,   \* history: the blocks the last CompileWorkflow passed to Install
    metadataFiles,  \* package manager, on disk: metadata path -> file
    binaryFiles,    \* package manager, on disk: the binaries that exist
    loadedBlocks,   \* pm.loadedBlocks: block name -> BlockMetadata
    isLoaded,       \* pm.isLoaded
    modClock,       \* metadata files written so far; a file written now is modified at modClock + 1
    pmret,          \* what the last package manager call returned
    installedBy,    \* history: what Install returned for the blocks this manager installed
    notInstalled,   \* history: blocks never installed in the directory, or uninstalled since
    everInstalled   \* history: blocks some Install has succeeded for in the directory

\* ------------------------------------------------------------ the graph
\* graph.Graph[string, *Block]: vertices by name, at most one edge per
\* ordered pair, each edge carrying its attributes.
EmptyGraph == [V |-> {}, E |-> {}]

AddVertex(g, name) == [g EXCEPT !.V = @ \cup {name}]

HasEdge(g, s, t) == \E e \in g.E : e.src = s /\ e.dst = t

\* graph.AddEdge on a directed graph without PreventCycles: rejected when an
\* endpoint is no vertex or the edge already exists; self-edges and cycles
\* are accepted.  buildGraph drops the error.
AddEdge(g, s, t, attrs) ==
    IF s \notin g.V \/ t \notin g.V THEN g
    ELSE IF HasEdge(g, s, t) THEN g
    ELSE [g EXCEPT !.E = @ \cup
            {[src |-> s, dst |-> t, fromEntry |-> attrs.fromEntry,
              output |-> attrs.output, input |-> attrs.input,
              source |-> attrs.source]}]

\* api_helpers.go:31-33.  The loop variable is per iteration (the module uses
\* range-over-int, Go >= 1.22), so every vertex holds its own block.
RECURSIVE AddVertices(_, _, _)
AddVertices(g, blocks, i) ==
    IF i > Len(blocks) THEN g
    ELSE AddVertices(AddVertex(g, blocks[i].Name), blocks, i + 1)

\* A faulty variant of InferEdges: the edge is added from the consumer to the producer.
RECURSIVE InferEdgesReversed(_, _, _)
InferEdgesReversed(g, conns, k) ==
    LET n == Len(conns) IN
    IF k > n * n THEN g
    ELSE LET src == conns[((k - 1) \div n) + 1]
             dst == conns[((k - 1) % n) + 1]
         IN IF dst.Input = NoLabel \/ src.Output = NoLabel \/ src.Output # dst.Input
            THEN InferEdgesReversed(g, conns, k + 1)
            ELSE InferEdgesReversed(
                   AddEdge(g, dst.FromBlock, src.FromBlock,
                           [fromEntry |-> src.FromEntry, output |-> src.Output,
                            input |-> dst.Input, source |-> src.Source]),
                   conns, k + 1)

\* The nested loop of buildGraph, pair number k of n*n in (src, dst) order.
RECURSIVE InferEdges(_, _, _)
InferEdges(g, conns, k) ==
    LET n == Len(conns) IN
    IF k > n * n THEN g
    ELSE LET src == conns[((k - 1) \div n) + 1]
             dst == conns[((k - 1) % n) + 1]
         IN IF dst.Input = NoLabel \/ src.Output = NoLabel \/ src.Output # dst.Input
            THEN InferEdges(g, conns, k + 1)
            ELSE InferEdges(
                   AddEdge(g, src.FromBlock, dst.FromBlock,
                           [fromEntry |-> src.FromEntry, output |-> src.Output,
                            input |-> dst.Input, source |-> src.Source]),
                   conns, k + 1)

\* A faulty variant of buildGraph: the graph is not created anew, the
\* vertices and edges are added to those of the graphs the manager holds.
buildGraphShared(rwf) ==
    InferEdges(AddVertices([V |-> UNION {workflows[w].V : w \in DOMAIN workflows},
                            E |-> UNION {workflows[w].E : w \in DOMAIN workflows}],
                           rwf.Blocks, 1),
               rwf.Connections, 1)

\* buildGraph: a new graph, the declared blocks, the inferred edges.
buildGraph(rwf) ==
    InferEdges(AddVertices(EmptyGraph, rwf.Blocks, 1), rwf.Connections, 1)

\* A pipeline manifest of n blocks, all declared, with one connection each:
\* the first block reads the source, every other block reads a label; its
\* graph has at most n edges.
PipelineBlocks == <<"A", "B", "C", "D", "E", "F">>

\* The connections block number i of a pipeline may have.
PipelineConnection(i) ==
    {c \in Connection({PipelineBlocks[i]}) :
       /\ (c.Input = NoLabel) <=> (i = 1)
       /\ i = 1 => c.Output = "x"}

\* The connection lists of blocks i..n of a pipeline.
RECURSIVE PipelineConnections(_, _)
PipelineConnections(n, i) ==
    IF i > n THEN {<<>>}
    ELSE {<<c>> \o rest : c \in PipelineConnection(i), rest \in PipelineConnections(n, i + 1)}

Pipeline(n) ==
    {rwf \in {RawWorkflow([i \in 1..n |-> Block(PipelineBlocks[i])], conns) :
                conns \in PipelineConnections(n, 1)} :
       Cardinality(buildGraph(rwf).E) <= n}

\* graph.AdjacencyMap()[v]: the outgoing edges of v, keyed by target.
Adjacency(g, v) == {e \in g.E : e.src = v}

\* A faulty variant of findRootNode: hasIncomingEdge is filled with the sources of the
\* edges instead of their targets.
findRootNodeBySource(g) ==
    LET hasIncomingEdge == {e.src : e \in g.E}
        roots == g.V \ hasIncomingEdge
    IN IF roots = {} THEN {""} ELSE roots

\* findRootNode: the vertices that no edge targets.  The code returns the
\* first one that the iteration over the adjacency map meets, so any of them;
\* "" when there is none.
findRootNode(g) ==
    LET hasIncomingEdge == {e.dst : e \in g.E}
        roots == g.V \ hasIncomingEdge
    IN IF roots = {} THEN {""} ELSE roots

getIncoming(g, currentNode) == {e \in g.E : e.dst = currentNode}

\* A faulty variant of getOutGoing: the edges into the vertex are returned.
getOutGoingAsIncoming(g, currentNode) == {e \in g.E : e.dst = currentNode}

getOutGoing(g, currentNode) == Adjacency(g, currentNode)

\* A faulty variant of shouldUseSource: a vertex with a single incoming edge
\* still reads the source file.
shouldUseSourceUpToOne(incon) == Cardinality(incon) <= 1

\* executeBlock, api.go:122
shouldUseSource(incon) == Cardinality(incon) <= 0

\* wm.results[key] of a Go map: the zero value "" when the key is absent.
EmptyRes == [by |-> "", run |-> 0, wf |-> ""]

Lookup(res, key) == IF key \in DOMAIN res THEN res[key] ELSE EmptyRes

Store(res, key, val) == [k \in DOMAIN res \cup {key} |-> IF k = key THEN val ELSE res[k]]

\* All orders in which a Go map iteration can deliver a set of keys.
Orders(S) == {q \in [1..Cardinality(S) -> S] : \A i, j \in 1..Cardinality(S) : i # j => q[i] # q[j]}

vars == <<disk, workflows, metadata, results, ret, pc, wfn, startNode, visited, queue,
          level, levelLeft, cur, pending, runNo, budget, compiled, compiles, results0,
          failures, trace, installs, metadataFiles, binaryFiles, loadedBlocks, isLoaded,
          modClock, pmret, installedBy, notInstalled, everInstalled>>

pmvars == <<metadataFiles, binaryFiles, loadedBlocks, isLoaded, modClock, pmret,
            installedBy, notInstalled, everInstalled>>

wfvars == <<disk, workflows, metadata, results, ret, pc, wfn, startNode, visited, queue,
            level, levelLeft, cur, pending, runNo, budget, compiled, compiles, results0,
            failures, trace, installs>>

locals == <<visited, queue, level, levelLeft, cur, pending>>

\* The error value a call returned: its message and the block or file it names.
ReturnedFor(op, err, about) == [op |-> op, err |-> err, about |-> about]

Returned(op, err) == ReturnedFor(op, err, "")

\* The blocks of the package manager's world, in directory order, the
\* repositories that publish them, and the versions a request can name: the
\* older release, or none, which asks for the latest release (v2; a request
\* that names it makes the same call past getLatestRelease).
PMNames == <<"A", "B">>

PMRepos == {"org/A", "org/B"}

RequestVersions == {"v1", ""}

\* InstallRequest (an empty Version asks for the latest release).
InstallRequest == [Repo : PMRepos, Version : RequestVersions, Force : BOOLEAN]

NoMetadata == [Name |-> "", Version |-> "", SourceRepo |-> "", BinaryPath |-> <<>>]

\* What Install returns: a nil *BlockMetadata, or the metadata of a block.
NilResult == [IsNil |-> TRUE, meta |-> NoMetadata]

SuccessResult(m) == [IsNil |-> FALSE, meta |-> m]

\* What a package manager call returned: the error, the result and the block
\* or repository the call was about.
PMReturned(op, about, err, res) == [op |-> op, about |-> about, err |-> err, res |-> res]

\* NewPackageManager on a directory that does not exist yet: nothing on disk,
\* nothing loaded.
FreshPackageManager ==
    /\ metadataFiles = <<>>
    /\ binaryFiles = {}
    /\ loadedBlocks = <<>>
    /\ isLoaded = FALSE
    /\ modClock = 0
    /\ pmret = PMReturned("", "", "", NilResult)
    /\ installedBy = <<>>
    /\ notInstalled = {PMNames[i] : i \in DOMAIN PMNames}
    /\ everInstalled = {}

\* NewWorkflowManager: empty maps.
EmptyManager ==
    /\ workflows = <<>>
    /\ metadata = <<>>
    /\ results = <<>>
    /\ ret = Returned("", "")
    /\ pc = "idle"
    /\ wfn = ""
    /\ startNode = ""
    /\ visited = {}
    /\ queue = <<>>
    /\ level = 0
    /\ levelLeft = 0
    /\ cur = ""
    /\ pending = {}
    /\ runNo = 0
    /\ compiled = <<>>
    /\ results0 = <<>>
    /\ failures = 0
    /\ trace = <<>>
    /\ installs = <<>>

\* NewWorkflowManager: empty maps and a package manager.
InitManager == FreshPackageManager /\ EmptyManager

\* The workflow files hold one manifest of up to max connections.
OnDisk(max) ==
    \E blocks \in BlockLists : \E n \in 0..max :
      \E conns \in {c \in [1..n -> Connection(ConnNames(blocks))] : Canonical(blocks, c)} :
        disk = [p \in WorkflowPaths |-> RawWorkflow(blocks, conns)]

\* Two workflow files: a manifest of up to max connections and a second one
\* with the same block names, taken from the same repositories or, with a
\* member TRUE of forks, from others.
TwoOnDiskOf(max, forks, entries) ==
    \E blocks \in BlockLists : \E n \in 0..max :
      \E conns \in {c \in [1..n -> ConnectionOf(ConnNames(blocks), entries)] :
                       Canonical(blocks, c) /\ EntriesInOrder(c)} :
        \E fork \in forks, k \in 0..n :
          disk = [p \in {"p1", "p2"} |->
                    IF p = "p1" THEN RawWorkflow(blocks, conns)
                    ELSE SecondWorkflow(RawWorkflow(blocks, conns), fork, k)]

TwoOnDisk(max) == TwoOnDiskOf(max, BOOLEAN, {"e1"})

\* One workflow file of up to MaxConns connections, compiled and run once.
Init ==
    /\ OnDisk(MaxConns)
    /\ budget = 1
    /\ compiles = 1
    /\ InitManager

\* One workflow file with a single source connection and up to MaxConns + 1
\* connections, compiled and run once.
InitSingleSource ==
    /\ OnDisk(MaxConns + 1)
    /\ \A p \in WorkflowPaths : SingleSource(disk[p].Connections)
    /\ budget = 1
    /\ compiles = 1
    /\ InitManager

\* One workflow file of up to MaxConns connections, run up to MaxRuns times.
InitRuns ==
    /\ OnDisk(MaxConns)
    /\ budget = MaxRuns
    /\ compiles = 1
    /\ InitManager

\* One pipeline manifest of MaxConns + 1 blocks, compiled and run once.
InitPipeline ==
    /\ disk \in [WorkflowPaths -> Pipeline(MaxConns + 1)]
    /\ budget = 1
    /\ compiles = 1
    /\ InitManager

\* Two workflow files of up to MaxConns - 1 connections in one manager,
\* compiled once each or one of them twice, and run up to MaxRuns times.
InitTwo ==
    /\ TwoOnDisk(MaxConns - 1)
    /\ budget = MaxRuns
    /\ compiles = 2
    /\ InitManager

\* A manifest of fewer connections, compiled once or twice and run up to
\* MaxRuns times.
InitRepeat ==
    InitManager /\ OnDisk(MaxConns - 1) /\ budget = MaxRuns /\ compiles = 2

\* Two workflow files of up to MaxConns - 1 connections over the same
\* repositories, the second with all the connections of the first or with
\* none, compiled once each or one of them twice, and not run.
InitCompile ==
    /\ TwoOnDiskOf(MaxConns - 1, {FALSE}, Entries)
    /\ Len(disk["p2"].Connections) \in {0, Len(disk["p1"].Connections)}
    /\ budget = 0
    /\ compiles = 2
    /\ InitManager

\* One workflow file of up to MaxConns connections, compiled once and never
\* run.
InitGraph ==
    /\ OnDisk(MaxConns)
    /\ budget = 0
    /\ compiles = 1
    /\ InitManager

\* ---------------------------------------------------------------------------
\* The package manager: the helpers of helpers.go (metadata files per block
\* and version, the loading of an existing installation) and, over them, the
\* calls its callers and tests use: NewPackageManager, Install, Uninstall and
\* GetLoadedBlock, and Update as api.go has it.  Install returns the *BlockMetadata that CompileWorkflow
\* stores and Uninstall removes the versioned metadata; the bodies of these
\* two are not among the sources, so they are stated from their documented
\* behaviour (package_manager_summary.md, the package's tests) in terms of
\* the helpers.

\* fetchBlockInfo: the name in the agentic_support.yaml of the repository.
fetchBlockInfo(repo) ==
    IF repo = "org/A" THEN "A" ELSE IF repo = "org/B" THEN "B" ELSE repo

\* getLatestRelease: the tag of the latest release.
getLatestRelease(repo) == "v2"

\* downloadBinary: <base>/<block>/<version>/<binary>.
downloadBinary(name, version) == <<"bin", name, version>>

\* storeMetadata: metadata/<block>/<version>.json.
MetadataPath(name, version) == <<"metadata", name, version>>

\* The .json files of metadata/<block>/.
BlockDir(files, blockName) ==
    {p \in DOMAIN files : Len(p) = 3 /\ p[2] = blockName}

isBlockInstalled(files, blockName) == BlockDir(files, blockName) # {}

\* getMetadata: the most recently modified metadata file of the block; a file
\* that holds no JSON document (created, never encoded) does not decode.
getMetadata(files, blockName) ==
    LET entries == BlockDir(files, blockName)
    IN IF entries = {}
       THEN [err |-> "no metadata found", meta |-> NoMetadata]
       ELSE LET latestPath == CHOOSE p \in entries :
                                \A q \in entries : files[q].mod <= files[p].mod
            IN IF files[latestPath].meta = NoMetadata
               THEN [err |-> "failed to decode metadata", meta |-> NoMetadata]
               ELSE [err |-> "nil", meta |-> files[latestPath].meta]

\* os.Create and Encode: the file at path holds m, modified now.
WriteFile(files, path, m, now) ==
    [p \in DOMAIN files \cup {path} |->
        IF p = path THEN [meta |-> m, mod |-> now] ELSE files[p]]

storeMetadata(files, m, now) == WriteFile(files, MetadataPath(m.Name, m.Version), m, now)

\* list: the metadata of every directory metadata/<block>, in directory
\* order; a block whose metadata cannot be read is skipped.
RECURSIVE list(_, _)
list(files, i) ==
    IF i > Len(PMNames) THEN <<>>
    ELSE LET r == getMetadata(files, PMNames[i])
         IN (IF r.err = "nil" THEN <<r.meta>> ELSE <<>>) \o list(files, i + 1)

\* isExistingInstallation: a manager that has loaded answers from its cache;
\* otherwise some directory metadata/<block> holds a .json file.
isExistingInstallation(files, loaded, hasLoaded) ==
    IF hasLoaded THEN DOMAIN loaded # {}
    ELSE \E i \in DOMAIN PMNames : isBlockInstalled(files, PMNames[i])

\* The inner loop of checkBinariesExistAndLoad: every listed block is put in
\* the map, whatever block the outer loop is at.
LoadAll(loaded, blocks) ==
    [n \in DOMAIN loaded \cup {blocks[j].Name : j \in DOMAIN blocks} |->
        IF \E j \in DOMAIN blocks : blocks[j].Name = n
        THEN blocks[CHOOSE j \in DOMAIN blocks :
                      /\ blocks[j].Name = n
                      /\ \A k \in DOMAIN blocks : blocks[k].Name = n => k <= j]
        ELSE loaded[n]]

\* The outer loop of checkBinariesExistAndLoad from block i on: the first
\* block whose binary is missing ends the loop with an error, and the map
\* keeps what the iterations before it have put there.
RECURSIVE CheckFrom(_, _, _, _)
CheckFrom(blocks, bins, i, loaded) ==
    IF i > Len(blocks)
    THEN [err |-> "nil", loadedBlocks |-> loaded, isLoaded |-> TRUE]
    ELSE IF blocks[i].BinaryPath \notin bins
    THEN [err |-> "metadata exists but binary is missing", loadedBlocks |-> loaded,
          isLoaded |-> FALSE]
    ELSE CheckFrom(blocks, bins, i + 1, LoadAll(loaded, blocks))

\* checkBinariesExistAndLoad: a new map, then the loops over the list.
checkBinariesExistAndLoad(files, bins) == CheckFrom(list(files, 1), bins, 1, <<>>)

\* loadExistingInstallation on a new manager: nothing to load, or what
\* checkBinariesExistAndLoad has left.
loadExistingInstallation(files, bins) ==
    IF ~isExistingInstallation(files, <<>>, FALSE)
    THEN [err |-> "nil", loadedBlocks |-> <<>>, isLoaded |-> FALSE]
    ELSE LET r == checkBinariesExistAndLoad(files, bins)
         IN IF r.err # "nil"
            THEN [r EXCEPT !.err = "installation validation failed"]
            ELSE r

\* A faulty variant of GetLoadedBlock: a loaded installation reports every
\* name as present.
GetLoadedBlockAnyName(blockName) ==
    IF ~isLoaded THEN [block |-> NoMetadata, exists |-> FALSE]
    ELSE IF blockName \in DOMAIN loadedBlocks
         THEN [block |-> loadedBlocks[blockName], exists |-> TRUE]
         ELSE [block |-> NoMetadata, exists |-> TRUE]

\* GetLoadedBlock reads the cache, and nothing else.
GetLoadedBlock(blockName) ==
    IF ~isLoaded THEN [block |-> NoMetadata, exists |-> FALSE]
    ELSE IF blockName \in DOMAIN loadedBlocks
         THEN [block |-> loadedBlocks[blockName], exists |-> TRUE]
         ELSE [block |-> NoMetadata, exists |-> FALSE]

\* NewPackageManager on the directory of an earlier manager: the existing
\* installation is loaded; a loading error is printed and dropped.
NewPackageManager ==
    LET r == loadExistingInstallation(metadataFiles, binaryFiles)
    IN
    /\ loadedBlocks' = r.loadedBlocks
    /\ isLoaded' = r.isLoaded
    /\ installedBy' = <<>>
    /\ pmret' = PMReturned("NewPackageManager", "", r.err, NilResult)
    /\ UNCHANGED <<metadataFiles, binaryFiles, modClock, notInstalled, everInstalled>>
    /\ UNCHANGED wfvars

\* The repository that publishes a block.
RepoOf(name) == CHOOSE repo \in PMRepos : fetchBlockInfo(repo) = name

\* What an earlier manager has stored for a block it installed at v1.
StoredMetadata(name) ==
    [Name |-> name, Version |-> "v1", SourceRepo |-> RepoOf(name),
     BinaryPath |-> downloadBinary(name, "v1")]

\* The directory an earlier manager has left: the metadata of the blocks it
\* had installed.
ExistingDirectory(installed) ==
    [p \in {MetadataPath(n, "v1") : n \in installed} |->
        [meta |-> StoredMetadata(p[2]), mod |-> 0]]

\* NewPackageManager on a directory that exists: the installation is loaded.
\* present: the installed blocks whose binary is still there (a binary can be
\* deleted behind the manager's back, which is what the loading looks for).
ExistingPackageManager(installed, present) ==
    LET files == ExistingDirectory(installed)
        bins == {downloadBinary(n, "v1") : n \in present}
        r == loadExistingInstallation(files, bins)
    IN
    /\ metadataFiles = files
    /\ binaryFiles = bins
    /\ loadedBlocks = r.loadedBlocks
    /\ isLoaded = r.isLoaded
    /\ modClock = 0
    /\ pmret = PMReturned("NewPackageManager", "", r.err, NilResult)
    /\ installedBy = <<>>
    /\ notInstalled = {PMNames[i] : i \in DOMAIN PMNames} \ installed
    /\ everInstalled = installed

\* The places where Install can fail: the download before or after the binary
\* file was created, storeMetadata in os.Create or in Encode (the file is
\* then created or truncated, and holds no document).
InstallSteps == {"fetchBlockInfo", "getLatestRelease", "downloadBinary",
                 "downloadBinary:written", "storeMetadata", "storeMetadata:Encode"}

\* What a call leaves: its return values, the disk, the clock and the cache
\* of loaded blocks.
Outcome(err, res, about, files, bins, clock, loaded, hasLoaded) ==
    [err |-> err, res |-> res, about |-> about, files |-> files, bins |-> bins,
     clock |-> clock, loaded |-> loaded, isLoaded |-> hasLoaded]

\* The cache with the metadata of one more block.
Load(loaded, m) ==
    [n \in DOMAIN loaded \cup {m.Name} |-> IF n = m.Name THEN m ELSE loaded[n]]

\* A faulty variant of InstallOn: a failed call returns the result it has
\* filled in so far, not nil.
InstallOnPartialResult(files, bins, clock, loaded, hasLoaded, req, fail) ==
    LET name == fetchBlockInfo(req.Repo)
        version == IF req.Version = "" THEN getLatestRelease(req.Repo) ELSE req.Version
        binaryPath == downloadBinary(name, version)
        m == [Name |-> name, Version |-> version, SourceRepo |-> req.Repo,
              BinaryPath |-> binaryPath]
        partial == SuccessResult([m EXCEPT !.BinaryPath = <<>>])
        written == bins \cup {binaryPath}
        stored == getMetadata(files, name)
    IN IF fail = "fetchBlockInfo"
       THEN Outcome("failed to fetch block info", NilResult, req.Repo,
                    files, bins, clock, loaded, hasLoaded)
       ELSE IF ~req.Force /\ stored.err = "nil" /\ stored.meta.BinaryPath \in bins
       THEN Outcome("nil", SuccessResult(stored.meta), name,
                    files, bins, clock, Load(loaded, stored.meta), TRUE)
       ELSE IF fail = "getLatestRelease" /\ req.Version = ""
       THEN Outcome("failed to get latest release", partial, name,
                    files, bins, clock, loaded, hasLoaded)
       ELSE IF fail = "downloadBinary"
       THEN Outcome("failed to download binary", partial, name,
                    files, bins, clock, loaded, hasLoaded)
       ELSE IF fail = "downloadBinary:written"
       THEN Outcome("failed to download binary", partial, name,
                    files, written, clock, loaded, hasLoaded)
       ELSE IF fail = "storeMetadata"
       THEN Outcome("failed to store metadata", partial, name,
                    files, written, clock, loaded, hasLoaded)
       ELSE IF fail = "storeMetadata:Encode"
       THEN Outcome("failed to store metadata", partial, name,
                    WriteFile(files, MetadataPath(name, version), NoMetadata, clock + 1),
                    written, clock + 1, loaded, hasLoaded)
       ELSE Outcome("nil", SuccessResult(m), name,
                    storeMetadata(files, m, clock + 1), written, clock + 1,
                    Load(loaded, m), TRUE)

\* Install(req) on a disk and a cache.  fail: the place where this call fails
\* if it gets there, or "none".  A block whose binary is present is not
\* installed again unless the request forces it: the call returns the stored
\* metadata.  A successful call returns the metadata of the block, which is
\* from then on in the loaded installation (GetLoadedBlock reports it); a
\* failed call returns nil and an error, and the cache is as it was.  The
\* failures are those of the helpers: the file effects of a failed download
\* and of a failed storeMetadata are theirs.
InstallOn(files, bins, clock, loaded, hasLoaded, req, fail) ==
    LET name == fetchBlockInfo(req.Repo)
        version == IF req.Version = "" THEN getLatestRelease(req.Repo) ELSE req.Version
        binaryPath == downloadBinary(name, version)
        m == [Name |-> name, Version |-> version, SourceRepo |-> req.Repo,
              BinaryPath |-> binaryPath]
        written == bins \cup {binaryPath}
        stored == getMetadata(files, name)
    IN IF fail = "fetchBlockInfo"
       THEN Outcome("failed to fetch block info", NilResult, req.Repo,
                    files, bins, clock, loaded, hasLoaded)
       ELSE IF ~req.Force /\ stored.err = "nil" /\ stored.meta.BinaryPath \in bins
       THEN Outcome("nil", SuccessResult(stored.meta), name,
                    files, bins, clock, Load(loaded, stored.meta), TRUE)
       ELSE IF fail = "getLatestRelease" /\ req.Version = ""
       THEN Outcome("failed to get latest release", NilResult, name,
                    files, bins, clock, loaded, hasLoaded)
       ELSE IF fail = "downloadBinary"
       THEN Outcome("failed to download binary", NilResult, name,
                    files, bins, clock, loaded, hasLoaded)
       ELSE IF fail = "downloadBinary:written"
       THEN Outcome("failed to download binary", NilResult, name,
                    files, written, clock, loaded, hasLoaded)
       ELSE IF fail = "storeMetadata"
       THEN Outcome("failed to store metadata", NilResult, name,
                    files, written, clock, loaded, hasLoaded)
       ELSE IF fail = "storeMetadata:Encode"
       THEN Outcome("failed to store metadata", NilResult, name,
                    WriteFile(files, MetadataPath(name, version), NoMetadata, clock + 1),
                    written, clock + 1, loaded, hasLoaded)
       ELSE Outcome("nil", SuccessResult(m), name,
                    storeMetadata(files, m, clock + 1), written, clock + 1,
                    Load(loaded, m), TRUE)

\* The history of successful installations after a call with result res.
InstalledAfter(by, res) ==
    IF res.IsNil THEN by
    ELSE [n \in DOMAIN by \cup {res.meta.Name} |->
            IF n = res.meta.Name THEN res.meta ELSE by[n]]

\* Install(req), failing at fail when the call gets there.
Install(req, fail) ==
    /\ modClock < MaxInstalls
    /\ fail = "getLatestRelease" => req.Version = ""
    /\ \E r \in {InstallOn(metadataFiles, binaryFiles, modClock, loadedBlocks, isLoaded,
                           req, fail)} :
         /\ fail # "none" => r.err # "nil"
         /\ metadataFiles' = r.files
         /\ binaryFiles' = r.bins
         /\ modClock' = r.clock
         /\ loadedBlocks' = r.loaded
         /\ isLoaded' = r.isLoaded
         /\ installedBy' = InstalledAfter(installedBy, r.res)
         /\ notInstalled' = IF r.res.IsNil THEN notInstalled
                            ELSE notInstalled \ {r.res.meta.Name}
         /\ everInstalled' = IF r.res.IsNil THEN everInstalled
                             ELSE everInstalled \cup {r.res.meta.Name}
         /\ pmret' = PMReturned("Install", r.about, r.err, r.res)
         /\ UNCHANGED wfvars

\* UpdateRequest (an empty Version asks for the latest release).
UpdateRequest == [Name : {PMNames[i] : i \in DOMAIN PMNames}, Version : RequestVersions]

\* The places where Update can fail: those of the helpers it calls, and the
\* os.Remove of the old binary.
UpdateSteps == InstallSteps \cup {"removeOldBinary"}

\* The *UpdateResult of a call that did not update: Success is false.
UpdateFailure ==
    [IsNil |-> FALSE, Success |-> FALSE, OldVersion |-> "", NewVersion |-> "",
     BinaryPath |-> <<>>]

\* The *UpdateResult of a successful Update.
UpdateResult(oldVersion, m) ==
    [IsNil |-> FALSE, Success |-> TRUE, OldVersion |-> oldVersion,
     NewVersion |-> m.Version, BinaryPath |-> m.BinaryPath]

\* Update(req) on a disk.  fail: the place where this call fails if it gets
\* there, or "none".  A block without readable metadata and a block already
\* at the requested version give a result without Success and a nil error.
\* The new binary is downloaded, the binary the metadata names is removed and
\* the metadata is stored under the new version; the metadata file of the old
\* version stays, and the cache of loaded blocks is not touched.
UpdateOn(files, bins, clock, loaded, hasLoaded, req, fail) ==
    LET found == getMetadata(files, req.Name)
        old == found.meta
        version == IF req.Version = "" THEN getLatestRelease(old.SourceRepo)
                   ELSE req.Version
        binaryPath == downloadBinary(fetchBlockInfo(old.SourceRepo), version)
        m == [old EXCEPT !.Version = version, !.BinaryPath = binaryPath]
        written == bins \cup {binaryPath}
        replaced == written \ {old.BinaryPath}
    IN IF found.err # "nil"
       THEN Outcome("nil", UpdateFailure, req.Name, files, bins, clock, loaded, hasLoaded)
       ELSE IF fail = "getLatestRelease" /\ req.Version = ""
       THEN Outcome("Failed to get latest release", UpdateFailure, req.Name,
                    files, bins, clock, loaded, hasLoaded)
       ELSE IF version = old.Version
       THEN Outcome("nil", UpdateFailure, req.Name, files, bins, clock, loaded, hasLoaded)
       ELSE IF fail = "fetchBlockInfo"
       THEN Outcome("Failed to fetch block info", UpdateFailure, req.Name,
                    files, bins, clock, loaded, hasLoaded)
       ELSE IF fail = "downloadBinary"
       THEN Outcome("Failed to download and verify binary", UpdateFailure, req.Name,
                    files, bins, clock, loaded, hasLoaded)
       ELSE IF fail = "downloadBinary:written"
       THEN Outcome("Failed to download and verify binary", UpdateFailure, req.Name,
                    files, written, clock, loaded, hasLoaded)
       ELSE IF fail = "removeOldBinary"
       THEN Outcome("Failed to remove old binary", UpdateFailure, req.Name,
                    files, written, clock, loaded, hasLoaded)
       ELSE IF fail = "storeMetadata"
       THEN Outcome("Failed to update metadata", UpdateFailure, req.Name,
                    files, replaced, clock, loaded, hasLoaded)
       ELSE IF fail = "storeMetadata:Encode"
       THEN Outcome("Failed to update metadata", UpdateFailure, req.Name,
                    WriteFile(files, MetadataPath(m.Name, version), NoMetadata, clock + 1),
                    replaced, clock + 1, loaded, hasLoaded)
       ELSE Outcome("nil", UpdateResult(old.Version, m), req.Name,
                    storeMetadata(files, m, clock + 1), replaced, clock + 1,
                    loaded, hasLoaded)

\* Update(req), failing at fail when the call gets there.
Update(req, fail) ==
    /\ modClock < MaxInstalls
    /\ fail = "getLatestRelease" => req.Version = ""
    /\ \E r \in {UpdateOn(metadataFiles, binaryFiles, modClock, loadedBlocks, isLoaded,
                          req, fail)} :
         /\ fail # "none" => r.err # "nil"
         /\ metadataFiles' = r.files
         /\ binaryFiles' = r.bins
         /\ modClock' = r.clock
         /\ loadedBlocks' = r.loaded
         /\ isLoaded' = r.isLoaded
         /\ pmret' = PMReturned("Update", r.about, r.err, r.res)
         /\ UNCHANGED <<installedBy, notInstalled, everInstalled>>
         /\ UNCHANGED wfvars

\* The files of a block: its binaries, whatever their version.
BinariesOf(bins, blockName) == {b \in bins : b[2] = blockName}

\* The map without the entries of the paths of gone.
RemoveFiles(files, gone) == [p \in DOMAIN files \ gone |-> files[p]]

\* A faulty variant of Uninstall: only the binary and the metadata file of
\* the version getMetadata finds are removed.
UninstallLatestOnly(blockName) ==
    LET r == getMetadata(metadataFiles, blockName)
    IN
    /\ IF r.err # "nil"
       THEN /\ pmret' = PMReturned("Uninstall", blockName, "is not installed", NilResult)
            /\ UNCHANGED <<metadataFiles, binaryFiles, loadedBlocks, installedBy,
                           notInstalled>>
       ELSE /\ binaryFiles' = binaryFiles \ {r.meta.BinaryPath}
            /\ metadataFiles' = RemoveFiles(metadataFiles,
                                            {MetadataPath(r.meta.Name, r.meta.Version)})
            /\ loadedBlocks' = [n \in DOMAIN loadedBlocks \ {blockName} |-> loadedBlocks[n]]
            /\ installedBy' = [n \in DOMAIN installedBy \ {blockName} |-> installedBy[n]]
            /\ notInstalled' = notInstalled \cup {blockName}
            /\ pmret' = PMReturned("Uninstall", blockName, "nil", NilResult)
    /\ UNCHANGED <<isLoaded, modClock, everInstalled>>
    /\ UNCHANGED wfvars

\* Uninstall(blockName): a block without readable metadata is not installed,
\* and nothing changes; otherwise every file of the block, binaries and
\* metadata, is removed and the block leaves the cache.
Uninstall(blockName) ==
    LET r == getMetadata(metadataFiles, blockName)
    IN
    /\ IF r.err # "nil"
       THEN /\ pmret' = PMReturned("Uninstall", blockName, "is not installed", NilResult)
            /\ UNCHANGED <<metadataFiles, binaryFiles, loadedBlocks, installedBy,
                           notInstalled>>
       ELSE /\ binaryFiles' = binaryFiles \ BinariesOf(binaryFiles, blockName)
            /\ metadataFiles' = RemoveFiles(metadataFiles, BlockDir(metadataFiles, blockName))
            /\ loadedBlocks' = [n \in DOMAIN loadedBlocks \ {blockName} |-> loadedBlocks[n]]
            /\ installedBy' = [n \in DOMAIN installedBy \ {blockName} |-> installedBy[n]]
            /\ notInstalled' = notInstalled \cup {blockName}
            /\ pmret' = PMReturned("Uninstall", blockName, "nil", NilResult)
    /\ UNCHANGED <<isLoaded, modClock, everInstalled>>
    /\ UNCHANGED wfvars

\* api.go:27-31: the request CompileWorkflow builds for a block.
installReq(block) == [Repo |-> block.GitHub, Version |-> block.Version, Force |-> block.Force]

\* api.go:34-39: what CompileWorkflow keeps in wm.metadata is the value
\* Install returned with a nil error.
InstalledMetadata(res) == [Name |-> res.meta.Name, BinaryPath |-> res.meta.BinaryPath]

\* The places where an Install called by CompileWorkflow can fail: those of
\* Install.
CompileFailures == InstallSteps

\* The manager and its package manager's disk before the loop of
\* CompileWorkflow.
BeforeInstalls ==
    [files |-> metadataFiles, bins |-> binaryFiles, clock |-> modClock,
     metadata |-> metadata, calls |-> <<>>, err |-> "nil", failed |-> "",
     pmret |-> pmret, by |-> installedBy, absent |-> notInstalled,
     ever |-> everInstalled, loaded |-> loadedBlocks, isLoaded |-> isLoaded]

\* One iteration of the loop of CompileWorkflow on block b: the call of
\* Install and, when it returned no error, the assignment to wm.metadata.
InstallBlock(s, b, fail) ==
    LET r == InstallOn(s.files, s.bins, s.clock, s.loaded, s.isLoaded, installReq(b), fail)
    IN [files |-> r.files, bins |-> r.bins, clock |-> r.clock,
        metadata |-> IF r.err = "nil" THEN Store(s.metadata, b.Name, InstalledMetadata(r.res))
                     ELSE s.metadata,
        calls |-> Append(s.calls, b.Name),
        err |-> r.err,
        failed |-> IF r.err = "nil" THEN "" ELSE b.Name,
        pmret |-> PMReturned("Install", r.about, r.err, r.res),
        by |-> InstalledAfter(s.by, r.res),
        absent |-> IF r.res.IsNil THEN s.absent ELSE s.absent \ {r.res.meta.Name},
        ever |-> IF r.res.IsNil THEN s.ever ELSE s.ever \cup {r.res.meta.Name},
        loaded |-> r.loaded,
        isLoaded |-> r.isLoaded]

\* A faulty variant of InstallBlocks: after a failed Install the loop goes on
\* to the remaining blocks and the first error is returned at the end.
RECURSIVE InstallBlocksKeepsGoing(_, _, _, _, _)
InstallBlocksKeepsGoing(s, blocks, i, failAt, fail) ==
    IF i > Len(blocks) THEN s
    ELSE LET t == InstallBlock(s, blocks[i], IF i = failAt THEN fail ELSE "none")
         IN InstallBlocksKeepsGoing(
              IF s.err # "nil" THEN [t EXCEPT !.err = s.err, !.failed = s.failed] ELSE t,
              blocks, i + 1, failAt, fail)

\* The loop of CompileWorkflow (api.go:27-40) from block i on; the Install of
\* block failAt fails at fail, if it gets there.  The loop ends at the first
\* error.
RECURSIVE InstallBlocks(_, _, _, _, _)
InstallBlocks(s, blocks, i, failAt, fail) ==
    IF i > Len(blocks) THEN s
    ELSE LET t == InstallBlock(s, blocks[i], IF i = failAt THEN fail ELSE "none")
         IN IF t.err # "nil" THEN t
            ELSE InstallBlocks(t, blocks, i + 1, failAt, fail)

\* api.go:42-43: the new graph is registered under the name of the manifest.
Register(wfs, rwf) ==
    [w \in DOMAIN wfs \cup {rwf.Name} |-> IF w = rwf.Name THEN buildGraph(rwf) ELSE wfs[w]]

\* CompileWorkflow(path) where the Install of block number failAt fails at
\* fail (0: no Install fails; -1: parseWorkflow fails, the file is unreadable
\* or malformed).  A file can be compiled again: the blocks are passed to
\* Install again and the new graph replaces the registered one.
CompileWorkflow(path, failAt, fail) ==
    LET rawWorkflow == disk[path] IN
    /\ pc = "idle"
    /\ compiles > 0
    /\ failAt \in -1..Len(rawWorkflow.Blocks)
    /\ failAt <= 0 => fail = "none"
    /\ failAt > 0 => fail # "none"
    /\ compiles' = compiles - 1
    /\ compiled' = Append(compiled, path)
    /\ \E s \in {IF failAt = -1 THEN BeforeInstalls
                 ELSE InstallBlocks(BeforeInstalls, rawWorkflow.Blocks, 1, failAt, fail)} :
         /\ failAt > 0 => s.err # "nil"
         /\ installs' = s.calls
         /\ metadata' = s.metadata
         /\ metadataFiles' = s.files
         /\ binaryFiles' = s.bins
         /\ modClock' = s.clock
         /\ pmret' = s.pmret
         /\ installedBy' = s.by
         /\ notInstalled' = s.absent
         /\ everInstalled' = s.ever
         /\ loadedBlocks' = s.loaded
         /\ isLoaded' = s.isLoaded
         /\ IF failAt = -1
            THEN /\ workflows' = workflows
                 /\ ret' = ReturnedFor("CompileWorkflow", "parseWorkflow failed", path)
            ELSE IF s.err # "nil"
            THEN /\ workflows' = workflows
                 /\ ret' = ReturnedFor("CompileWorkflow", "failed to install block", s.failed)
            ELSE /\ workflows' = Register(workflows, rawWorkflow)
                 /\ ret' = Returned("CompileWorkflow", "nil")
    /\ UNCHANGED <<disk, results, pc, wfn, startNode, locals, runNo, budget,
                   results0, failures, trace>>

\* A faulty variant of RunWorkFlowBegin: every vertex without incoming edges
\* is put on the queue, not only the selected root.
RunWorkFlowBeginAllRoots(name) ==
    /\ pc = "idle"
    /\ budget > 0
    /\ budget' = budget - 1
    /\ runNo' = runNo + 1
    /\ wfn' = name
    /\ trace' = <<>>
    /\ IF name \notin DOMAIN workflows
       THEN \* g is the nil interface: g.AdjacencyMap() panics
            /\ pc' = "crashed"
            /\ ret' = Returned("RunWorkFlow", "panic")
            /\ startNode' = ""
            /\ UNCHANGED locals
       ELSE \E root \in findRootNode(workflows[name]) :
              /\ startNode' = root
              /\ IF root = ""
                 THEN /\ ret' = Returned("RunWorkFlow", "no root node found")
                      /\ pc' = "idle"
                      /\ UNCHANGED locals
                 ELSE /\ ret' = Returned("RunWorkFlow", "running")
                      /\ pc' = "outer"
                      /\ visited' = {}
                      /\ \E order \in Orders(findRootNode(workflows[name]) \ {root}) :
                           queue' = <<root>> \o order
                      /\ level' = 0
                      /\ levelLeft' = 0
                      /\ UNCHANGED <<cur, pending>>
    /\ results0' = results
    /\ UNCHANGED pmvars
    /\ UNCHANGED <<disk, workflows, metadata, results, compiled, compiles, failures, installs>>

\* RunWorkFlow, api.go:50-67: look the graph up, find the root, set up the
\* traversal.
RunWorkFlowBegin(name) ==
    /\ pc = "idle"
    /\ budget > 0
    /\ budget' = budget - 1
    /\ runNo' = runNo + 1
    /\ wfn' = name
    /\ trace' = <<>>
    /\ IF name \notin DOMAIN workflows
       THEN \* g is the nil interface: g.AdjacencyMap() panics
            /\ pc' = "crashed"
            /\ ret' = Returned("RunWorkFlow", "panic")
            /\ startNode' = ""
            /\ UNCHANGED locals
       ELSE \E root \in findRootNode(workflows[name]) :
              /\ startNode' = root
              /\ IF root = ""
                 THEN /\ ret' = Returned("RunWorkFlow", "no root node found")
                      /\ pc' = "idle"
                      /\ UNCHANGED locals
                 ELSE /\ ret' = Returned("RunWorkFlow", "running")
                      /\ pc' = "outer"
                      /\ visited' = {}
                      /\ queue' = <<root>>
                      /\ level' = 0
                      /\ levelLeft' = 0
                      /\ UNCHANGED <<cur, pending>>
    /\ results0' = results
    /\ UNCHANGED pmvars
    /\ UNCHANGED <<disk, workflows, metadata, results, compiled, compiles, failures, installs>>

\* A faulty variant of OuterLoop: a run that ends drops its graph from the
\* registry.
OuterLoopDropsGraph ==
    /\ pc = "outer"
    /\ IF Len(queue) > 0
       THEN /\ levelLeft' = Len(queue)
            /\ pc' = "inner"
            /\ ret' = ret
            /\ workflows' = workflows
       ELSE /\ levelLeft' = levelLeft
            /\ pc' = "idle"
            /\ ret' = Returned("RunWorkFlow", "nil")
            /\ workflows' = [n \in DOMAIN workflows \ {wfn} |-> workflows[n]]
    /\ UNCHANGED pmvars
    /\ UNCHANGED <<disk, metadata, results, wfn, startNode, visited, queue,
                   level, cur, pending, runNo, budget, compiled, compiles, results0, failures, trace,
                   installs>>

\* api.go:69-70 and 110: the head of the outer loop.
OuterLoop ==
    /\ pc = "outer"
    /\ IF Len(queue) > 0
       THEN /\ levelLeft' = Len(queue)
            /\ pc' = "inner"
            /\ ret' = ret
       ELSE /\ levelLeft' = levelLeft
            /\ pc' = "idle"
            /\ ret' = Returned("RunWorkFlow", "nil")
    /\ UNCHANGED pmvars
    /\ UNCHANGED <<disk, workflows, metadata, results, wfn, startNode, visited, queue,
                   level, cur, pending, runNo, budget, compiled, compiles, results0, failures, trace,
                   installs>>

\* A faulty variant of IsVisited: the visited check of the dequeue step is lost.
IsVisitedNever(vis, node) == FALSE

\* api.go:77, visited[currentNode]
IsVisited(vis, node) == node \in vis

\* api.go:73-93 and 106-107: one iteration of the inner loop up to the call
\* of executeBlock, or the end of the level.
Dequeue ==
    /\ pc = "inner"
    /\ IF levelLeft = 0
       THEN /\ level' = level + 1
            /\ pc' = "outer"
            /\ UNCHANGED <<queue, visited, cur, pending, levelLeft, trace>>
       ELSE LET currentNode == Head(queue) IN
            /\ queue' = Tail(queue)
            /\ levelLeft' = levelLeft - 1
            /\ level' = level
            /\ IF IsVisited(visited, currentNode)
               THEN /\ pc' = "inner"
                    /\ trace' = Append(trace, [ev |-> "skip", block |-> currentNode])
                    /\ UNCHANGED <<visited, cur, pending>>
               ELSE /\ visited' = visited \cup {currentNode}
                    /\ cur' = currentNode
                    /\ pending' = getOutGoing(workflows[wfn], currentNode)
                    /\ trace' = Append(trace, [ev |-> "exec", block |-> currentNode])
                    /\ pc' = "exec"
    /\ UNCHANGED pmvars
    /\ UNCHANGED <<disk, workflows, metadata, results, ret, wfn, startNode, runNo, budget,
                   compiled, compiles, results0, failures, installs>>

\* A faulty variant of Invoke: the output is stored although the subprocess
\* failed.
InvokeStoresAlways(edge, ok) ==
    LET g == workflows[wfn]
        binary == metadata[cur].BinaryPath
        inputpath == edge.input
        outputpath == edge.output
        useSource == shouldUseSource(getIncoming(g, cur))
        stdin == IF useSource
                 THEN [kind |-> "file", path |-> inputpath, val |-> EmptyRes]
                 ELSE [kind |-> "store", path |-> "", val |-> Lookup(results, inputpath)]
        output == [by |-> cur, run |-> runNo, wf |-> wfn]
    IN
    /\ pc = "exec"
    /\ edge \in pending
    /\ ok => binary \in binaryFiles
    /\ ok \/ failures < MaxFailures \/ binary \notin binaryFiles
    /\ pending' = pending \ {edge}
    /\ results' = Store(results, outputpath, output)
    /\ failures' = IF ok \/ failures >= MaxFailures THEN failures ELSE failures + 1
    /\ trace' = Append(trace, [ev |-> "run", block |-> cur, binary |-> binary,
                               mode |-> IF useSource THEN "source" ELSE "node",
                               key |-> inputpath, stdin |-> stdin,
                               out |-> outputpath, to |-> edge.dst, ok |-> ok])
    /\ UNCHANGED pmvars
    /\ UNCHANGED <<disk, workflows, metadata, ret, pc, wfn, startNode, visited, queue,
                   level, levelLeft, cur, runNo, budget, compiled, compiles, results0, installs>>

\* One iteration of the loop of executeBlock (api.go:129-139) over an
\* outgoing edge: fromSource for a vertex without incoming edges, fromNode
\* otherwise.  ok: the subprocess ran and exited zero, which takes a binary at
\* the path of the metadata.  The error of a failed invocation is dropped by
\* executeBlock.
Invoke(edge, ok) ==
    LET g == workflows[wfn]
        binary == metadata[cur].BinaryPath
        inputpath == edge.input
        outputpath == edge.output
        useSource == shouldUseSource(getIncoming(g, cur))
        stdin == IF useSource
                 THEN [kind |-> "file", path |-> inputpath, val |-> EmptyRes]
                 ELSE [kind |-> "store", path |-> "", val |-> Lookup(results, inputpath)]
        output == [by |-> cur, run |-> runNo, wf |-> wfn]
    IN
    /\ pc = "exec"
    /\ edge \in pending
    /\ ok => binary \in binaryFiles
    /\ ok \/ failures < MaxFailures \/ binary \notin binaryFiles
    /\ pending' = pending \ {edge}
    /\ results' = IF ok THEN Store(results, outputpath, output) ELSE results
    /\ failures' = IF ok \/ failures >= MaxFailures THEN failures ELSE failures + 1
    /\ trace' = Append(trace, [ev |-> "run", block |-> cur, binary |-> binary,
                               mode |-> IF useSource THEN "source" ELSE "node",
                               key |-> inputpath, stdin |-> stdin,
                               out |-> outputpath, to |-> edge.dst, ok |-> ok])
    /\ UNCHANGED pmvars
    /\ UNCHANGED <<disk, workflows, metadata, ret, pc, wfn, startNode, visited, queue,
                   level, levelLeft, cur, runNo, budget, compiled, compiles, results0, installs>>

\* A faulty variant of Enqueue: the traversal moves on while invocations of
\* the current vertex are still outstanding.
EnqueueEarly ==
    /\ pc = "exec"
    /\ LET err == "nil"
           targets == {e.dst : e \in Adjacency(workflows[wfn], cur)} \ visited
       IN IF err # "nil"
          THEN /\ ret' = ReturnedFor("RunWorkFlow", "error executing block", cur)
               /\ pc' = "idle"
               /\ queue' = queue
          ELSE /\ \E order \in Orders(targets) : queue' = queue \o order
               /\ pc' = "inner"
               /\ ret' = ret
    /\ UNCHANGED pmvars
    /\ UNCHANGED <<disk, workflows, metadata, results, wfn, startNode, visited, level,
                   levelLeft, cur, pending, runNo, budget, compiled, compiles, results0, failures, trace,
                   installs>>

\* A faulty variant of Enqueue: the successors are put at the front of the
\* queue (depth-first).
EnqueueFront ==
    /\ pc = "exec"
    /\ pending = {}
    /\ LET err == "nil"
           targets == {e.dst : e \in Adjacency(workflows[wfn], cur)} \ visited
       IN IF err # "nil"
          THEN /\ ret' = ReturnedFor("RunWorkFlow", "error executing block", cur)
               /\ pc' = "idle"
               /\ queue' = queue
          ELSE /\ \E order \in Orders(targets) : queue' = order \o queue
               /\ pc' = "inner"
               /\ ret' = ret
    /\ UNCHANGED pmvars
    /\ UNCHANGED <<disk, workflows, metadata, results, wfn, startNode, visited, level,
                   levelLeft, cur, pending, runNo, budget, compiled, compiles, results0, failures, trace,
                   installs>>

\* A faulty variant of Enqueue: the successors are put on the queue whether
\* visited or not.
EnqueueVisited ==
    /\ pc = "exec"
    /\ pending = {}
    /\ LET err == "nil"
           targets == {e.dst : e \in Adjacency(workflows[wfn], cur)}
       IN IF err # "nil"
          THEN /\ ret' = ReturnedFor("RunWorkFlow", "error executing block", cur)
               /\ pc' = "idle"
               /\ queue' = queue
          ELSE /\ \E order \in Orders(targets) : queue' = queue \o order
               /\ pc' = "inner"
               /\ ret' = ret
    /\ UNCHANGED pmvars
    /\ UNCHANGED <<disk, workflows, metadata, results, wfn, startNode, visited, level,
                   levelLeft, cur, pending, runNo, budget, compiled, compiles, results0, failures, trace,
                   installs>>

\* executeBlock returns nil (api.go:141); api.go:96-104: the error check and
\* the enqueueing of the successors that are not visited, in map order.
Enqueue ==
    /\ pc = "exec"
    /\ pending = {}
    /\ LET err == "nil"
           targets == {e.dst : e \in Adjacency(workflows[wfn], cur)} \ visited
       IN IF err # "nil"
          THEN /\ ret' = ReturnedFor("RunWorkFlow", "error executing block", cur)
               /\ pc' = "idle"
               /\ queue' = queue
          ELSE /\ \E order \in Orders(targets) : queue' = queue \o order
               /\ pc' = "inner"
               /\ ret' = ret
    /\ UNCHANGED pmvars
    /\ UNCHANGED <<disk, workflows, metadata, results, wfn, startNode, visited, level,
                   levelLeft, cur, pending, runNo, budget, compiled, compiles, results0, failures, trace,
                   installs>>

\* ------------------------------------------------------------------------
\* Vocabulary of the properties
\* ------------------------------------------------------------------------

sawFailure == failures > 0

\* A RunWorkFlow call on a compiled workflow is in progress or was the last call.
InRun == ret.op = "RunWorkFlow" /\ wfn \in DOMAIN workflows

G == workflows[wfn]

\* The manifest a compiled workflow was built from.
ManifestOf(name) == disk[CHOOSE p \in DOMAIN disk : disk[p].Name = name]

RunReturnedNil == InRun /\ pc = "idle" /\ ret.err = "nil"

ExecEvents(v) == {i \in DOMAIN trace : trace[i].ev = "exec" /\ trace[i].block = v}

RunEvents == {i \in DOMAIN trace : trace[i].ev = "run"}

Executed(v) == ExecEvents(v) # {}

ExecutedBefore(u, v) == \A i \in ExecEvents(v) : \E j \in ExecEvents(u) : j < i

\* p has stored its output under label l before event i of the run.
WroteBefore(p, l, i) ==
    \E j \in RunEvents : j < i /\ trace[j].block = p /\ trace[j].out = l /\ trace[j].ok

RECURSIVE Reach(_, _)
Reach(g, S) ==
    LET N == S \cup {e.dst : e \in {d \in g.E : d.src \in S}}
    IN IF N = S THEN S ELSE Reach(g, N)

Reachable(g, root) == Reach(g, {root})

Matches(a, b) == a.Output = b.Input /\ b.Input # NoLabel

\* ------------------------------------------------------------------------
\* C1  Visit-once: in a run over any compiled graph no vertex is executed
\* twice, and when RunWorkFlow returns, executeBlock has been invoked exactly
\* once for every vertex reachable from the selected root.
C1_VisitOnce ==
    InRun =>
      \A v \in G.V :
        /\ Cardinality(ExecEvents(v)) <= 1
        /\ (RunReturnedNil /\ v \in Reachable(G, startNode))
              => Cardinality(ExecEvents(v)) = 1

\* A finished run over three reachable vertices with a fan-in and a self-edge.
C1_Witness ==
    /\ RunReturnedNil
    /\ Cardinality(Reachable(G, startNode)) = 3
    /\ \E v \in G.V : Cardinality({e \in getIncoming(G, v) : e.src # v}) >= 2
    /\ \E u \in G.V : HasEdge(G, u, u)

Roots(g) == g.V \ {e.dst : e \in g.E}

Acyclic(g) == \A v \in g.V : v \notin Reach(g, {e.dst : e \in Adjacency(g, v)}) \ {""}

\* C2  Ordering: for every edge producer->consumer the producer has written
\* the shared label into the Result Store before the consumer is executed and
\* takes its input.  Stated for the acyclic graphs with a single root and for
\* the runs in which no subprocess has failed.
C2_Ordering ==
    (InRun /\ ~sawFailure /\ Acyclic(G) /\ Cardinality(Roots(G)) = 1) =>
      \A e \in G.E :
        \A i \in ExecEvents(e.dst) : WroteBefore(e.src, e.output, i)

\* C3  When a subprocess invocation fails, no vertex is executed after it and
\* RunWorkFlow returns an error naming the failing block.
C3_FailureAborts ==
    InRun =>
      \A i \in RunEvents :
        ~trace[i].ok =>
          /\ \A j \in DOMAIN trace : j > i => trace[j].ev # "exec"
          /\ pc = "idle" => (ret.err = "error executing block" /\ ret.about = trace[i].block)

\* The manifest of scenario 2: blocks A and B, A a root connection, B's
\* input equal to A's output.
TwoBlockPipeline(m) ==
    /\ Len(m.Blocks) = 2
    /\ Len(m.Connections) = 2
    /\ m.Connections[1].FromBlock = "A"
    /\ m.Connections[1].Input = NoLabel
    /\ m.Connections[1].Output # NoLabel
    /\ m.Connections[2].FromBlock = "B"
    /\ m.Connections[2].Input = m.Connections[1].Output
    /\ m.Connections[2].Output # m.Connections[2].Input

\* C4  For the two-block pipeline: the graph has exactly the edge A->B, the
\* root finder returns A, A is executed before B, and when the run returns
\* with every subprocess successful, B's binary was invoked with the output
\* captured from A as standard input.
C4_PipelineStdin ==
    (InRun /\ TwoBlockPipeline(ManifestOf(wfn))) =>
      /\ {<<e.src, e.dst>> : e \in G.E} = {<<"A", "B">>}
      /\ findRootNode(G) = {"A"}
      /\ ExecutedBefore("A", "B")
      /\ (RunReturnedNil /\ ~sawFailure) =>
            \E i \in RunEvents :
              /\ trace[i].block = "B"
              /\ trace[i].stdin.kind = "store"
              /\ trace[i].stdin.val = [by |-> "A", run |-> runNo, wf |-> wfn]

\* The manifest of scenario 1: one block, one root connection with a source.
OneBlockRoot(m) ==
    /\ Len(m.Blocks) = 1
    /\ Len(m.Connections) = 1
    /\ m.Connections[1].FromBlock = "A"
    /\ m.Connections[1].Input = NoLabel
    /\ m.Connections[1].Output # NoLabel
    /\ m.Connections[1].Source # ""

\* C5  For one block with one root connection: when the run returns with
\* every subprocess successful, the block's binary was invoked with the source
\* file as standard input and the Result Store holds its output under the
\* connection's output label.
C5_SingleRootRuns ==
    (RunReturnedNil /\ ~sawFailure /\ OneBlockRoot(ManifestOf(wfn))) =>
      LET c == ManifestOf(wfn).Connections[1] IN
      /\ \E i \in RunEvents :
           /\ trace[i].block = "A"
           /\ trace[i].stdin = [kind |-> "file", path |-> c.Source, val |-> EmptyRes]
           /\ trace[i].out = c.Output
      /\ c.Output \in DOMAIN results

\* Every connection names a declared block, every declared block has a
\* connection, and no connection has an empty input.
NoSourceConnection(m) ==
    /\ Len(m.Connections) >= 1
    /\ \A i \in DOMAIN m.Connections :
         /\ m.Connections[i].Input # NoLabel
         /\ \E b \in DOMAIN m.Blocks : m.Blocks[b].Name = m.Connections[i].FromBlock
    /\ \A b \in DOMAIN m.Blocks :
         \E i \in DOMAIN m.Connections : m.Connections[i].FromBlock = m.Blocks[b].Name

\* C6  For a manifest in which no connection has an empty input, RunWorkFlow
\* returns the "no root node found" error and no subprocess is spawned.
C6_NoSourceNoRoot ==
    (InRun /\ NoSourceConnection(ManifestOf(wfn))) =>
      /\ ret.err = "no root node found"
      /\ RunEvents = {}

\* C7  RunWorkFlow returns the no-root error exactly when every vertex of the
\* compiled graph has an incoming edge; it has then spawned no subprocess and
\* left the Result Store as it was.  Otherwise the traversal starts from a
\* vertex without incoming edges.
C7_NoRootIff ==
    InRun =>
      LET allTargeted == \A v \in G.V : getIncoming(G, v) # {} IN
      /\ (ret.err = "no root node found") <=> allTargeted
      /\ allTargeted => (pc = "idle" /\ trace = <<>> /\ results = results0)
      /\ ~allTargeted => (startNode \in G.V /\ getIncoming(G, startNode) = {})

\* Both outcomes of the root search have occurred somewhere: here the error,
\* on a graph that has edges (a cycle hides every root).
C7_Witness ==
    /\ InRun
    /\ ret.err = "no root node found"
    /\ G.E # {}
    /\ Cardinality(G.V) >= 2

\* C8 as stated: for ALL pairs of connections A, B, an edge from A's block to
\* B's block exists if and only if A.output == B.input and B.input is
\* non-empty.
C8_MatchingPerPair ==
    \A w \in DOMAIN workflows :
      LET conns == ManifestOf(w).Connections IN
      \A i, j \in DOMAIN conns :
        HasEdge(workflows[w], conns[i].FromBlock, conns[j].FromBlock)
          <=> Matches(conns[i], conns[j])

\* C8 amended: the edges join declared blocks only, and for all declared
\* blocks u, v an edge u->v exists if and only if SOME connection of u and some
\* connection of v match (output of the first equal to the non-empty input of
\* the second).
C8_MatchingPerBlockPair ==
    \A w \in DOMAIN workflows :
      LET conns == ManifestOf(w).Connections
          g == workflows[w]
          matching == {ij \in (DOMAIN conns) \X (DOMAIN conns) :
                          /\ Matches(conns[ij[1]], conns[ij[2]])
                          /\ conns[ij[1]].FromBlock \in g.V
                          /\ conns[ij[2]].FromBlock \in g.V}
      IN {<<e.src, e.dst>> : e \in g.E}
           = {<<conns[ij[1]].FromBlock, conns[ij[2]].FromBlock>> : ij \in matching}

\* A compiled graph in which both differences from the per-pair statement
\* occur: a matching pair without edge (undeclared block) and an edge between
\* the blocks of a pair that does not match.
C8_Witness ==
    \E w \in DOMAIN workflows :
      LET conns == ManifestOf(w).Connections
          g == workflows[w]
      IN /\ \E i, j \in DOMAIN conns :
              Matches(conns[i], conns[j])
              /\ ~HasEdge(g, conns[i].FromBlock, conns[j].FromBlock)
         /\ \E i, j \in DOMAIN conns :
              ~Matches(conns[i], conns[j])
              /\ HasEdge(g, conns[i].FromBlock, conns[j].FromBlock)

\* The manifest of scenario 5: root connections of A and of B with the same
\* output, and a connection of C with that label as input.
FanIn(m) ==
    /\ Len(m.Blocks) = 3
    /\ Len(m.Connections) = 3
    /\ m.Connections[1].FromBlock = "A"
    /\ m.Connections[2].FromBlock = "B"
    /\ m.Connections[3].FromBlock = "C"
    /\ m.Connections[1].Input = NoLabel
    /\ m.Connections[2].Input = NoLabel
    /\ m.Connections[1].Output # NoLabel
    /\ m.Connections[2].Output = m.Connections[1].Output
    /\ m.Connections[3].Input = m.Connections[1].Output
    /\ m.Connections[3].Output # m.Connections[3].Input

\* C9  Fan-in: the graph has the two edges A->C and B->C, and in every run
\* both producers are executed before the consumer.
C9_FanInOrder ==
    (InRun /\ FanIn(ManifestOf(wfn))) =>
      /\ {<<e.src, e.dst>> : e \in G.E} = {<<"A", "C">>, <<"B", "C">>}
      /\ ExecutedBefore("A", "C")
      /\ ExecutedBefore("B", "C")

\* C10  A value read from the Result Store during a run was written during
\* that run.  Stated for the behaviours without a failed subprocess.
C10_ResultsScopedToRun ==
    (InRun /\ ~sawFailure) =>
      \A i \in RunEvents :
        (trace[i].stdin.kind = "store" /\ trace[i].stdin.val # EmptyRes)
          => trace[i].stdin.val.run = runNo

\* The block a manifest declares under a name.
DeclaredBlock(m, name) == m.Blocks[CHOOSE i \in DOMAIN m.Blocks : m.Blocks[i].Name = name]

\* The binary that installing a block as declared puts on disk.
InstalledBinary(block) ==
    InstallOn(<<>>, {}, 0, <<>>, FALSE, installReq(block), "none").res.meta.BinaryPath

\* C11  Compiled workflows are independent: in a run of w1 in a manager that
\* has also compiled w2, the graph is the one of w1's manifest, every binary
\* invoked is the one installed for the block as w1 declares it, and every
\* value read from the Result Store was written by a run of w1.
C11_WorkflowsIndependent ==
    (InRun /\ wfn = "w1" /\ "w2" \in DOMAIN workflows) =>
      /\ G = buildGraph(ManifestOf("w1"))
      /\ \A i \in RunEvents :
           /\ trace[i].binary
                = InstalledBinary(DeclaredBlock(ManifestOf("w1"), trace[i].block))
           /\ (trace[i].stdin.kind = "store" /\ trace[i].stdin.val # EmptyRes)
                 => trace[i].stdin.val.wf = "w1"

\* The last call was a CompileWorkflow in which Install failed for a block.
InstallFailed == ret.op = "CompileWorkflow" /\ ret.err = "failed to install block"

\* C12  When Install fails for the k-th block, the metadata map of the manager
\* is after the error what it was before the call: it holds no entry that the
\* failed attempt added for the blocks 1..k-1.
C12_FailedCompileDiscardsMetadata ==
    [][(compiled' # compiled /\ ret'.err = "failed to install block")
         => metadata' = metadata]_vars

\* C13  CompileWorkflow passes the blocks to Install in manifest order, once
\* each, and none after the first failing one; the error names the failing
\* block and the call registers no graph; when the manifest cannot be parsed,
\* Install is not called and nothing is registered or installed.
C13_CompileStopsAtFirstFailure ==
    [][compiled' # compiled =>
         LET m == disk[compiled'[Len(compiled')]] IN
         /\ Len(installs') <= Len(m.Blocks)
         /\ \A i \in DOMAIN installs' : installs'[i] = m.Blocks[i].Name
         /\ ret'.err = "nil" =>
              /\ Len(installs') = Len(m.Blocks)
              /\ m.Name \in DOMAIN workflows'
         /\ ret'.err = "failed to install block" =>
              /\ installs' # <<>>
              /\ ret'.about = installs'[Len(installs')]
              /\ workflows' = workflows
         /\ ret'.err = "parseWorkflow failed" =>
              /\ installs' = <<>>
              /\ UNCHANGED <<workflows, metadata, metadataFiles, binaryFiles>>]_vars

\* Install failed for the second of three blocks in the second compilation of
\* the behaviour.
C13_Witness ==
    /\ InstallFailed
    /\ Len(installs) = 2
    /\ Len(compiled) = 2
    /\ Len(disk[compiled[2]].Blocks) = 3
    /\ installs[1] \in DOMAIN metadata

\* Same vertices, same edges, each edge with the same attributes (fromEntry,
\* output, input and source).
SameGraph(g, h) == g.V = h.V /\ g.E = h.E

\* The pairs of connections of a manifest in which the first produces the
\* label the second consumes, both from declared blocks.
Matching(m) ==
    LET declared == {m.Blocks[i].Name : i \in DOMAIN m.Blocks}
        conns == m.Connections
    IN {ij \in (DOMAIN conns) \X (DOMAIN conns) :
          /\ conns[ij[1]].Output # NoLabel
          /\ conns[ij[1]].Output = conns[ij[2]].Input
          /\ conns[ij[1]].FromBlock \in declared
          /\ conns[ij[2]].FromBlock \in declared}

\* What a manifest says by itself: the declared blocks and, for every ordered
\* pair of blocks with matching connections, one edge with the attributes of
\* the first matching pair in manifest order.
ManifestGraph(m) ==
    LET conns == m.Connections
        Before(a, b) == a[1] < b[1] \/ (a[1] = b[1] /\ a[2] <= b[2])
        Ends(ij) == <<conns[ij[1]].FromBlock, conns[ij[2]].FromBlock>>
        firsts == {ij \in Matching(m) :
                     \A o \in Matching(m) : Ends(o) = Ends(ij) => Before(ij, o)}
    IN [V |-> {m.Blocks[i].Name : i \in DOMAIN m.Blocks},
        E |-> {[src |-> conns[ij[1]].FromBlock, dst |-> conns[ij[2]].FromBlock,
                fromEntry |-> conns[ij[1]].FromEntry, output |-> conns[ij[1]].Output,
                input |-> conns[ij[2]].Input, source |-> conns[ij[1]].Source] :
               ij \in firsts}]

\* The manifests of p and q declare the same blocks and connections.
SameManifest(p, q) ==
    /\ [i \in DOMAIN disk[p].Blocks |-> disk[p].Blocks[i].Name]
         = [i \in DOMAIN disk[q].Blocks |-> disk[q].Blocks[i].Name]
    /\ disk[p].Connections = disk[q].Connections

\* C14  Idempotent compilation: two workflows compiled from the same blocks
\* and connections have structurally identical graphs, and the graph
\* registered for a workflow is what its manifest says by itself, whatever the
\* manager compiled before, in whatever order, and whatever failed.
C14_IdempotentCompilation ==
    \A p, q \in DOMAIN disk :
      (disk[p].Name \in DOMAIN workflows /\ disk[q].Name \in DOMAIN workflows) =>
        /\ SameGraph(workflows[disk[p].Name], ManifestGraph(disk[p]))
        /\ SameManifest(p, q) => SameGraph(workflows[disk[p].Name], workflows[disk[q].Name])

\* Two workflows compiled one after the other from the same connections,
\* which name two entries and give two edges or more.
C14_Witness ==
    /\ DOMAIN workflows = {"w1", "w2"}
    /\ SameManifest("p1", "p2")
    /\ Cardinality(workflows["w1"].E) >= 2
    /\ {e.fromEntry : e \in workflows["w2"].E} = Entries

SkipEvents == {i \in DOMAIN trace : trace[i].ev = "skip"}

\* The exec event that a run event belongs to: the last one before it.
ExecOf(i) == CHOOSE j \in DOMAIN trace :
                /\ j < i /\ trace[j].ev = "exec"
                /\ \A k \in (j + 1)..(i - 1) : trace[k].ev # "exec"

\* C15  Execution is sequential: a subprocess invocation is one step of the
\* vertex being executed, made after that vertex was dequeued and before any
\* other vertex is, and no vertex is dequeued while an invocation of the
\* current vertex is outstanding.
C15_Sequential ==
    InRun =>
      /\ pc # "exec" => pending = {}
      /\ \A i \in RunEvents :
           /\ \E j \in DOMAIN trace : j < i /\ trace[j].ev = "exec"
           /\ trace[ExecOf(i)].block = trace[i].block

\* A finished run in which two vertices made invocations, one of them two.
C15_Witness ==
    /\ RunReturnedNil
    /\ Cardinality({trace[i].block : i \in RunEvents}) >= 2
    /\ \E i, j \in RunEvents : i # j /\ trace[i].block = trace[j].block

\* The length of a shortest path from the vertices S (at distance k) to v;
\* -1 when there is none.
RECURSIVE DistFrom(_, _, _, _)
DistFrom(g, S, v, k) ==
    IF v \in S THEN k
    ELSE LET N == S \cup {e.dst : e \in {d \in g.E : d.src \in S}}
         IN IF N = S THEN -1 ELSE DistFrom(g, N, v, k + 1)

Dist(g, root, v) == DistFrom(g, {root}, v, 0)

\* C16  Level by level: whenever a vertex is dequeued and executed, every
\* vertex that is strictly nearer to the selected root has been executed
\* before it.
C16_LevelByLevel ==
    (InRun /\ trace # <<>> /\ trace[Len(trace)].ev = "exec") =>
      LET v == trace[Len(trace)].block
          dv == Dist(G, startNode, v)
      IN \A u \in G.V \ {v} :
           LET du == Dist(G, startNode, u) IN
           (0 <= du /\ du < dv) => Executed(u)

\* A finished run with a vertex at distance 2 and a vertex that was dequeued
\* a second time.
C16_Witness ==
    /\ RunReturnedNil
    /\ SkipEvents # {}
    /\ \E v \in G.V : Dist(G, startNode, v) = 2

\* C17  Termination: the work of a run is bounded by the graph (every queue
\* entry is the root or the target of an edge of an executed vertex, and no
\* vertex is executed twice), the traversal is never stuck while the run is
\* in progress, and RunWorkFlow returns with the queue empty.
C17_Terminates ==
    InRun =>
      /\ Cardinality(DOMAIN trace \ RunEvents) + Len(queue) <= 1 + Cardinality(G.E)
      /\ Cardinality(RunEvents) <= Cardinality(G.E)
      /\ pc \in {"outer", "inner", "exec"} =>
            ENABLED (OuterLoop \/ Dequeue \/ Enqueue
                     \/ \E e \in pending, ok \in BOOLEAN : Invoke(e, ok))
      /\ (pc = "idle" /\ ret.err = "nil") => queue = <<>>

\* A finished run over a graph with a cycle, in which a vertex was dequeued a
\* second time.
C17_Witness ==
    /\ RunReturnedNil
    /\ ~Acyclic(G)
    /\ SkipEvents # {}
    /\ Cardinality(Reachable(G, startNode)) = 3

\* The edge of the compiled graph that an invocation of the run was made for.
EdgeOf(i) == CHOOSE e \in G.E : e.src = trace[i].block /\ e.dst = trace[i].to

\* C18  Root input: every invocation of a vertex without incoming edges reads
\* its standard input from the file named by the source attribute of the edge,
\* and its captured output is stored under the output label of the edge.
C18_RootReadsSourceFile ==
    InRun =>
      \A i \in RunEvents :
        getIncoming(G, trace[i].block) = {} =>
          /\ trace[i].stdin.kind = "file"
          /\ trace[i].stdin.path = EdgeOf(i).source
          /\ (trace[i].ok /\ i = Len(trace)) =>
                Lookup(results, EdgeOf(i).output) =
                  [by |-> trace[i].block, run |-> runNo, wf |-> wfn]

PMBlocks == {PMNames[i] : i \in DOMAIN PMNames}

C22_LoadedBlocksHaveBinaries ==
    pmret.op = "NewPackageManager" =>
      /\ \A name \in DOMAIN loadedBlocks : loadedBlocks[name].BinaryPath \in binaryFiles
      /\ isLoaded =>
           \A i \in DOMAIN list(metadataFiles, 1) :
             list(metadataFiles, 1)[i].BinaryPath \in binaryFiles
      /\ pmret.err # "nil" => (loadedBlocks = <<>> /\ ~isLoaded)

\* The invocations of block v in the current run.
RunsOf(v) == {i \in RunEvents : trace[i].block = v}

\* The edges of the compiled graph that leave v.
OutEdges(v) == {e \in G.E : e.src = v}

\* C23  Once per outgoing edge: a vertex whose execution is over has been
\* invoked once for each of its outgoing edges and no more, so a vertex
\* without outgoing edges is executed without any invocation; while a vertex
\* is executing, its invocations so far and the edges still to handle make up
\* its outgoing edges.
C23_OncePerOutgoingEdge ==
    InRun =>
      \A v \in G.V :
        Executed(v) =>
          LET done == {trace[i].to : i \in RunsOf(v)}
              left == IF pc = "exec" /\ cur = v THEN {e.dst : e \in pending} ELSE {}
          IN /\ Cardinality(RunsOf(v)) = Cardinality(done)
             /\ done \cup left = {e.dst : e \in OutEdges(v)}
             /\ done \cap left = {}

\* A finished run in which a vertex with two outgoing edges and a vertex
\* without outgoing edges were executed.
C23_Witness ==
    /\ RunReturnedNil
    /\ \E v \in G.V : Executed(v) /\ Cardinality(OutEdges(v)) = 2 /\ Cardinality(RunsOf(v)) = 2
    /\ \E v \in G.V : Executed(v) /\ OutEdges(v) = {} /\ RunsOf(v) = {}

\* C24  Only the part of the graph that the selected root reaches runs: every
\* vertex dequeued, executed or invoked in a run is reachable from the start
\* vertex, and every entry the run has written to the Result Store was written
\* by such a vertex.
C24_OnlyReachableFromRoot ==
    (InRun /\ startNode \in G.V) =>
      LET reached == Reachable(G, startNode) IN
      /\ \A i \in DOMAIN trace : trace[i].block \in reached
      /\ \A l \in DOMAIN results :
           (results[l].run = runNo /\ results[l].wf = wfn)
             => results[l].by \in reached

\* A finished run over a graph with a second vertex without incoming edges,
\* which has an outgoing edge and is not reachable from the start vertex.
C24_Witness ==
    /\ RunReturnedNil
    /\ startNode \in G.V
    /\ \E v \in Roots(G) \ {startNode} : OutEdges(v) # {} /\ ~Executed(v)
    /\ \E i \in RunEvents : trace[i].ok

\* The successful invocations of the run that stored under label l.
WritersOf(l) == {i \in RunEvents : trace[i].ok /\ trace[i].out = l}

\* The last element of a non-empty set of event numbers.
LastOf(S) == CHOOSE i \in S : \A j \in S : j <= i

\* C25  No write on failure, no rollback: at every point of a run and after
\* it has returned, a label that a successful invocation of the run stored
\* under holds what the last such invocation stored, and every other label is
\* as it was when the run began; a failed invocation has written nothing and
\* nothing written is taken back.
C25_NoWriteOnFailure ==
    InRun =>
      /\ DOMAIN results = DOMAIN results0 \cup {trace[i].out : i \in {j \in RunEvents : trace[j].ok}}
      /\ \A l \in DOMAIN results :
           results[l] = IF WritersOf(l) # {}
                        THEN [by |-> trace[LastOf(WritersOf(l))].block, run |-> runNo, wf |-> wfn]
                        ELSE results0[l]

\* A second run has returned in which an invocation failed after another one
\* had stored its output under the same label.
C25_Witness ==
    /\ RunReturnedNil
    /\ results0 # <<>>
    /\ \E i, f \in RunEvents : i < f /\ trace[i].ok /\ ~trace[f].ok
                               /\ trace[i].out = trace[f].out

\* How often vertex v stands in queue q.
Occurrences(q, v) == Cardinality({i \in DOMAIN q : q[i] = v})

\* The declared blocks of a manifest with a connection whose output label is
\* the input label of a connection of the same block.
SelfFeeding(m) ==
    {m.Connections[j].FromBlock : j \in
       {i \in DOMAIN m.Connections :
          /\ m.Connections[i].FromBlock \in {m.Blocks[n].Name : n \in DOMAIN m.Blocks}
          /\ \E k \in DOMAIN m.Connections :
               /\ m.Connections[k].FromBlock = m.Connections[i].FromBlock
               /\ m.Connections[k].Input # NoLabel
               /\ m.Connections[i].Output = m.Connections[k].Input}}

\* Every such block has a self-edge in the compiled graph, and in the run no
\* vertex with a self-edge has been executed twice.
SelfEdgesBuilt ==
    /\ \A name \in DOMAIN workflows :
         \A v \in SelfFeeding(ManifestOf(name)) : HasEdge(workflows[name], v, v)
    /\ InRun => \A v \in G.V : HasEdge(G, v, v) => Cardinality(ExecEvents(v)) <= 1

\* C26  Self-edge: a connection whose output is its own block's input gives
\* the block a self-edge; a vertex with a self-edge is executed at most once,
\* and the step that enqueues the successors of such a vertex after its
\* execution does not put the vertex itself on the queue again.
C26_SelfEdgeHarmless ==
    [][/\ SelfEdgesBuilt'
       /\ (pc = "exec" /\ pc' = "inner" /\ HasEdge(G, cur, cur))
            => Occurrences(queue', cur) = Occurrences(queue, cur)]_vars

\* A finished run in which a vertex with a self-edge made by such a connection
\* was executed and invoked for that edge.
C26_Witness ==
    /\ RunReturnedNil
    /\ \E v \in SelfFeeding(ManifestOf(wfn)) :
         /\ Executed(v)
         /\ \E i \in RunsOf(v) : trace[i].to = v
         /\ \E u \in G.V \ {v} : HasEdge(G, v, u) /\ Executed(u)

\* C27  Frame of a run: no step of RunWorkFlow, from its call to its return or
\* crash, changes the registry of compiled graphs or the metadata map.
C27_RunLeavesGraphsAndMetadata ==
    [][(runNo' # runNo \/ pc # "idle")
         => (workflows' = workflows /\ metadata' = metadata)]_vars

\* A run that wrote to the Result Store has returned, with an invocation that
\* failed.
C27_Witness ==
    /\ RunReturnedNil
    /\ results # results0
    /\ sawFailure
    /\ metadata # <<>>

\* The blocks the manifest declares.
Declared(m) == {m.Blocks[i].Name : i \in DOMAIN m.Blocks}

\* Every invocation of v in the current run succeeded, and v was executed.
ExecutedSuccessfully(v) == Executed(v) /\ \A i \in RunsOf(v) : trace[i].ok

\* C28  Every matched label is produced: when a run has returned, for every
\* pair of connections A, B of declared blocks with A.output = B.input whose
\* producer block was executed with every invocation succeeding, the Result
\* Store holds an entry under A.output, also when several connections link
\* the same two blocks with different labels.
C28_MatchedLabelsProduced ==
    RunReturnedNil =>
      LET m == ManifestOf(wfn) IN
      \A a, b \in DOMAIN m.Connections :
        LET A == m.Connections[a]
            B == m.Connections[b]
        IN (/\ Matches(A, B)
            /\ A.FromBlock \in Declared(m)
            /\ B.FromBlock \in Declared(m)
            /\ ExecutedSuccessfully(A.FromBlock))
             => A.Output \in DOMAIN results

\* The vertices of the current run that were executed in source mode: those
\* executeBlock was called for with no incoming edge.
SourceModeVertices == {v \in G.V : Executed(v) /\ v \notin {e.dst : e \in G.E}}

\* C29  In a run exactly one vertex is executed in source mode, the start
\* vertex returned by findRootNode: every invocation of the start vertex takes
\* its stdin from a file, every other executed vertex has an incoming edge and
\* every one of its invocations takes its stdin from the Result Store.
C29_OnlyStartVertexInSourceMode ==
    (InRun /\ \E v \in G.V : Executed(v)) =>
      /\ startNode \in findRootNode(G)
      /\ SourceModeVertices = {startNode}
      /\ \A i \in RunEvents :
           /\ trace[i].mode = (IF trace[i].block = startNode THEN "source" ELSE "node")
           /\ trace[i].stdin.kind = (IF trace[i].block = startNode THEN "file" ELSE "store")

\* A finished run in which the start vertex and two more vertices have
\* invoked their binaries, one of them fed by a single edge.
C29_Witness ==
    /\ RunReturnedNil
    /\ \E i \in RunEvents : trace[i].block = startNode /\ trace[i].mode = "source"
    /\ \E i, j \in RunEvents :
         /\ trace[i].block # startNode
         /\ trace[j].block \notin {startNode, trace[i].block}
         /\ trace[i].mode = "node"
         /\ Cardinality(getIncoming(G, trace[i].block)) = 1

\* C30  RunWorkFlow called with a name that was never successfully compiled
\* returns an error value to its caller (no crash), spawns no subprocess and
\* leaves the Result Store unchanged.
C30_UnknownWorkflowReturnsError ==
    (ret.op = "RunWorkFlow" /\ wfn \notin DOMAIN workflows) =>
      /\ pc = "idle"
      /\ ret.err \notin {"nil", "running", "panic"}
      /\ RunEvents = {}
      /\ results = results0

Next ==
    \/ \E p \in DOMAIN disk : \E k \in -1..Len(disk[p].Blocks) :
         \E fail \in CompileFailures \cup {"none"} : CompileWorkflow(p, k, fail)
    \/ \E p \in DOMAIN disk : RunWorkFlowBegin(disk[p].Name)
    \/ OuterLoop
    \/ Dequeue
    \/ \E e \in pending, ok \in BOOLEAN : Invoke(e, ok)
    \/ Enqueue

Spec == Init /\ [][Next]_vars

SpecRuns == InitRuns /\ [][Next]_vars

SpecSingleSource == InitSingleSource /\ [][Next]_vars

SpecTwo == InitTwo /\ [][Next]_vars

SpecPipeline == InitPipeline /\ [][Next]_vars

\* Repeated runs over the smaller manifests.
SpecRepeat == InitRepeat /\ [][Next]_vars

\* Compilation alone.
NextCompile ==
    \E p \in DOMAIN disk : \E k \in -1..Len(disk[p].Blocks) :
      \E fail \in CompileFailures \cup {"none"} : CompileWorkflow(p, k, fail)

\* Compilation of two manifests.  For the graphs it matters whether and at
\* which block a compilation fails, not where inside Install: the failure is
\* taken at the first place, which every Install reaches.
NextCompileTwo ==
    \E p \in DOMAIN disk : \E k \in -1..Len(disk[p].Blocks) :
      \E fail \in {"none", "fetchBlockInfo"} : CompileWorkflow(p, k, fail)

SpecCompile == InitCompile /\ [][NextCompileTwo]_vars

SpecGraph == InitGraph /\ [][NextCompile]_vars

\* The package manager alone: a manager on an empty directory or on the
\* directory an earlier manager has left, with the binaries of all, some or
\* none of its blocks, and the calls made on it and on the managers created
\* on its directory afterwards.
InitPM ==
    /\ \E installed \in SUBSET {PMNames[i] : i \in DOMAIN PMNames} :
         \E present \in SUBSET installed : ExistingPackageManager(installed, present)
    /\ EmptyManager
    /\ disk = <<>>
    /\ budget = 0
    /\ compiles = 0

NextPM ==
    \/ NewPackageManager
    \/ \E req \in InstallRequest, fail \in InstallSteps \cup {"none"} : Install(req, fail)
    \/ \E req \in UpdateRequest, fail \in UpdateSteps \cup {"none"} : Update(req, fail)
    \/ \E i \in DOMAIN PMNames : Uninstall(PMNames[i])

SpecPM == InitPM /\ [][NextPM]_vars

====
